---- MODULE Spec2Model ----
(***************************************************************************)
(* Model of bpf/include/bpf_net_namespace.h: net_get_netns_cookie(skb).    *)
(*                                                                         *)
(* Kernel memory is a set of typed objects at addresses.  A packet         *)
(* descriptor (struct sk_buff) carries a device pointer and a socket       *)
(* pointer; a device and a socket carry a pointer to a namespace; a        *)
(* namespace carries net_cookie.  A pointer is NULL, the address of a live *)
(* object, or a stale address at which nothing is mapped.  BPF_CORE_READ   *)
(* is a chain of bpf_probe_read_kernel calls: a read of an unmapped        *)
(* address faults and leaves zero in the destination.                      *)
(*                                                                         *)
(* Each CPU runs the hook on its own packet; one invocation is a sequence  *)
(* of steps (one per source statement), and steps of different CPUs        *)
(* interleave.  Cookies are u64 in the source; no arithmetic is done on    *)
(* them, so a few representative values stand for the type.                *)
(***************************************************************************)
EXTENDS Integers, Sequences, FiniteSets, TLC

\* ---- bounds ----
NCPU == 2

CPUs == 1..NCPU

\* ---- kernel memory ----
NULL == 0

NetAddrs  == {1, 2, 3}
DevAddrs  == {4, 5}
SockAddrs == {6, 7}
StaleAddr == {9}

DevPtrs  == {NULL} \cup DevAddrs \cup StaleAddr
SockPtrs == {NULL} \cup SockAddrs \cup StaleAddr

Cookies == {0, 10, 11}

\* namespaces: one whose cookie is still zero, and two with distinct cookies
KernelNets == (1 :> [net_cookie |-> 0]) @@ (2 :> [net_cookie |-> 10])
              @@ (3 :> [net_cookie |-> 11])
KernelDevs == (4 :> [nd_net |-> 1]) @@ (5 :> [nd_net |-> 2])
KernelSocks == (6 :> [skc_net |-> 2]) @@ (7 :> [skc_net |-> 3])

VARIABLES
    probe,   \* bpf_core_field_exists(net->net_cookie), fixed at load time
    skbs,    \* skbs[c]: the packet descriptor the hook on CPU c was given
    devs,    \* struct net_device objects by address
    socks,   \* struct sock objects by address
    nets,    \* struct net objects by address
    pc,      \* pc[c]: position of CPU c's invocation
    dev,     \* local 'dev' of the invocation on CPU c
    sk,      \* local 'sk' of the invocation on CPU c
    ret,     \* value returned by the invocation on CPU c
    reads,   \* fields read so far by the invocation on CPU c, in order
    steps,   \* statements executed so far by the invocation on CPU c
    prev     \* {value the previous invocation on CPU c returned}, {} before it

mem  == <<probe, skbs, devs, socks, nets>>
vars == <<probe, skbs, devs, socks, nets, pc, dev, sk, ret, reads, steps, prev>>

RetPoints == {"ret11", "ret15", "ret20", "ret23"}
InFlight  == {"l10", "l13", "l14", "l18", "l19"}

\* bpf_probe_read_kernel of one field: the value, or zero on a fault
ProbeRead(objs, addr, field) ==
    IF addr \in DOMAIN objs THEN objs[addr][field] ELSE 0

\* BPF_CORE_READ(dev, nd_net.net, net_cookie)
ReadDevCookie(d) ==
    ProbeRead(nets, ProbeRead(devs, d, "nd_net"), "net_cookie")

\* variant: the socket is walked with the device's field chain
ReadSkCookie_DevChain(s) ==
    ProbeRead(nets, ProbeRead(devs, s, "nd_net"), "net_cookie")

\* BPF_CORE_READ(sk, __sk_common.skc_net.net, net_cookie)
ReadSkCookie(s) ==
    ProbeRead(nets, ProbeRead(socks, s, "skc_net"), "net_cookie")

\* the function run alone, start to end, on packet skb
net_get_netns_cookie(skb) ==
    IF ~probe THEN 0
    ELSE IF skb.dev # NULL THEN ReadDevCookie(skb.dev)
    ELSE IF skb.sk # NULL THEN ReadSkCookie(skb.sk)
    ELSE 0

Init ==
    /\ probe \in BOOLEAN
    /\ skbs \in [CPUs -> [dev : DevPtrs, sk : SockPtrs]]
    /\ devs = KernelDevs
    /\ socks = KernelSocks
    /\ nets = KernelNets
    /\ pc = [c \in CPUs |-> "idle"]
    /\ dev = [c \in CPUs |-> NULL]
    /\ sk = [c \in CPUs |-> NULL]
    /\ ret = [c \in CPUs |-> 0]
    /\ reads = [c \in CPUs |-> <<>>]
    /\ steps = [c \in CPUs |-> 0]
    /\ prev = [c \in CPUs |-> {}]

\* one more statement executed on CPU c
Tick(c) == steps' = [steps EXCEPT ![c] = @ + 1]

\* the return statement at label site, with value v
Return(c, site, v) ==
    /\ pc' = [pc EXCEPT ![c] = site]
    /\ ret' = [ret EXCEPT ![c] = v]
    /\ Tick(c)

\* the hook calls net_get_netns_cookie(skb) on CPU c
Call(c) ==
    /\ pc[c] \in {"idle"} \cup RetPoints
    /\ prev' = [prev EXCEPT ![c] = IF pc[c] = "idle" THEN {} ELSE {ret[c]}]
    /\ pc' = [pc EXCEPT ![c] = "l10"]
    /\ dev' = [dev EXCEPT ![c] = NULL]
    /\ sk' = [sk EXCEPT ![c] = NULL]
    /\ reads' = [reads EXCEPT ![c] = <<>>]
    /\ steps' = [steps EXCEPT ![c] = 0]
    /\ UNCHANGED <<mem, ret>>

\* variant: the feature gate is missing, the reads go ahead
ProbeNegative_NoGate(c) ==
    /\ Tick(c)
    /\ pc[c] = "l10"
    /\ ~probe
    /\ pc' = [pc EXCEPT ![c] = "l13"]
    /\ UNCHANGED <<mem, dev, sk, ret, reads, prev>>

\* line 10-11: if (!bpf_core_field_exists(...)) return 0;
ProbeNegative(c) ==
    /\ pc[c] = "l10"
    /\ ~probe
    /\ Return(c, "ret11", 0)
    /\ UNCHANGED <<mem, dev, sk, reads, prev>>

\* line 10, probe positive: fall through to line 13
ProbePositive(c) ==
    /\ Tick(c)
    /\ pc[c] = "l10"
    /\ probe
    /\ pc' = [pc EXCEPT ![c] = "l13"]
    /\ UNCHANGED <<mem, dev, sk, ret, reads, prev>>

\* variant: the packet pointer comes from a scratch slot shared between CPUs
ReadDev_SharedScratch(c) ==
    /\ Tick(c)
    /\ pc[c] = "l13"
    /\ dev' = [dev EXCEPT ![c] = skbs[(c % NCPU) + 1].dev]
    /\ reads' = [reads EXCEPT ![c] = Append(@, "skb.dev")]
    /\ pc' = [pc EXCEPT ![c] = "l14"]
    /\ UNCHANGED <<mem, sk, ret, prev>>

\* line 13: dev = BPF_CORE_READ(skb, dev);
ReadDev(c) ==
    /\ Tick(c)
    /\ pc[c] = "l13"
    /\ dev' = [dev EXCEPT ![c] = skbs[c].dev]
    /\ reads' = [reads EXCEPT ![c] = Append(@, "skb.dev")]
    /\ pc' = [pc EXCEPT ![c] = "l14"]
    /\ UNCHANGED <<mem, sk, ret, prev>>

\* variant: the socket's cookie is preferred when the packet has a socket
DevPath_SocketWins(c) ==
    /\ pc[c] = "l14"
    /\ dev[c] # NULL
    /\ Return(c, "ret15", IF skbs[c].sk # NULL THEN ReadSkCookie(skbs[c].sk)
                                               ELSE ReadDevCookie(dev[c]))
    /\ reads' = [reads EXCEPT ![c] = @ \o <<"dev.nd_net.net", "net.net_cookie">>]
    /\ UNCHANGED <<mem, dev, sk, prev>>

\* variant: a faulting read of the device aborts instead of yielding zero
DevPath_FaultAborts(c) ==
    /\ pc[c] = "l14"
    /\ dev[c] # NULL
    /\ dev[c] \in DOMAIN devs
    /\ Return(c, "ret15", ReadDevCookie(dev[c]))
    /\ reads' = [reads EXCEPT ![c] = @ \o <<"dev.nd_net.net", "net.net_cookie">>]
    /\ UNCHANGED <<mem, dev, sk, prev>>

\* variant: the device path detaches the device from the packet
DevPath_ConsumesDev(c) ==
    /\ pc[c] = "l14"
    /\ dev[c] # NULL
    /\ Return(c, "ret15", ReadDevCookie(dev[c]))
    /\ reads' = [reads EXCEPT ![c] = @ \o <<"dev.nd_net.net", "net.net_cookie">>]
    /\ skbs' = [skbs EXCEPT ![c].dev = NULL]
    /\ UNCHANGED <<probe, devs, socks, nets, dev, sk, prev>>

\* variant: a zero from the device chained read falls through to the socket
DevPath_FallsBack(c) ==
    /\ pc[c] = "l14"
    /\ dev[c] # NULL
    /\ reads' = [reads EXCEPT ![c] = @ \o <<"dev.nd_net.net", "net.net_cookie">>]
    /\ IF ReadDevCookie(dev[c]) # 0
          THEN Return(c, "ret15", ReadDevCookie(dev[c]))
          ELSE /\ Tick(c)
               /\ pc' = [pc EXCEPT ![c] = "l18"]
               /\ UNCHANGED ret
    /\ UNCHANGED <<mem, dev, sk, prev>>

\* line 14-16: if (dev) return BPF_CORE_READ(dev, nd_net.net, net_cookie);
DevPath(c) ==
    /\ pc[c] = "l14"
    /\ dev[c] # NULL
    /\ Return(c, "ret15", ReadDevCookie(dev[c]))
    /\ reads' = [reads EXCEPT ![c] = @ \o <<"dev.nd_net.net", "net.net_cookie">>]
    /\ UNCHANGED <<mem, dev, sk, prev>>

\* line 14, dev is null: fall through to line 18
DevNull(c) ==
    /\ Tick(c)
    /\ pc[c] = "l14"
    /\ dev[c] = NULL
    /\ pc' = [pc EXCEPT ![c] = "l18"]
    /\ UNCHANGED <<mem, dev, sk, ret, reads, prev>>

\* line 18: sk = BPF_CORE_READ(skb, sk);
ReadSk(c) ==
    /\ Tick(c)
    /\ pc[c] = "l18"
    /\ sk' = [sk EXCEPT ![c] = skbs[c].sk]
    /\ reads' = [reads EXCEPT ![c] = Append(@, "skb.sk")]
    /\ pc' = [pc EXCEPT ![c] = "l19"]
    /\ UNCHANGED <<mem, dev, ret, prev>>

\* line 19-21: if (sk) return BPF_CORE_READ(sk, __sk_common.skc_net.net, net_cookie);
SkPath(c) ==
    /\ pc[c] = "l19"
    /\ sk[c] # NULL
    /\ Return(c, "ret20", ReadSkCookie(sk[c]))
    /\ reads' = [reads EXCEPT ![c] = @ \o <<"sk.skc_net.net", "net.net_cookie">>]
    /\ UNCHANGED <<mem, dev, sk, prev>>

\* variant: the null check of sk is missing, the chain is walked from NULL
SkNull_ChainedRead(c) ==
    /\ pc[c] = "l19"
    /\ sk[c] = NULL
    /\ Return(c, "ret20", ReadSkCookie(sk[c]))
    /\ reads' = [reads EXCEPT ![c] = @ \o <<"sk.skc_net.net", "net.net_cookie">>]
    /\ UNCHANGED <<mem, dev, sk, prev>>

\* line 23: return 0;
SkNull(c) ==
    /\ pc[c] = "l19"
    /\ sk[c] = NULL
    /\ Return(c, "ret23", 0)
    /\ UNCHANGED <<mem, dev, sk, reads, prev>>

\* one statement of the invocation in flight on CPU c
Step(c) ==
    \/ ProbeNegative(c)
    \/ ProbePositive(c)
    \/ ReadDev(c)
    \/ DevPath(c)
    \/ DevNull(c)
    \/ ReadSk(c)
    \/ SkPath(c)
    \/ SkNull(c)

Next == \E c \in CPUs : Call(c) \/ Step(c)

Spec == Init /\ [][Next]_vars

\* ---- vocabulary of the properties ----
AtReturn(c) == pc[c] \in RetPoints

FieldsRead(c) == {reads[c][i] : i \in DOMAIN reads[c]}

ChainedReads == {"dev.nd_net.net", "sk.skc_net.net", "net.net_cookie"}

\* the packet's device is live and its namespace carries cookie k
DevNsCookieIs(skb, k) ==
    /\ skb.dev \in DOMAIN devs
    /\ devs[skb.dev].nd_net \in DOMAIN nets
    /\ nets[devs[skb.dev].nd_net].net_cookie = k

\* the packet's socket is live and its namespace carries cookie k
SkNsCookieIs(skb, k) ==
    /\ skb.sk \in DOMAIN socks
    /\ socks[skb.sk].skc_net \in DOMAIN nets
    /\ nets[socks[skb.sk].skc_net].net_cookie = k

\* a path is unresolved: its pointer is null or its chained read yields zero
DevUnresolved(skb) == skb.dev = NULL \/ ~ \E k \in Cookies \ {0} : DevNsCookieIs(skb, k)
SkUnresolved(skb) == skb.sk = NULL \/ ~ \E k \in Cookies \ {0} : SkNsCookieIs(skb, k)

\* C1: the function returns zero iff the probe is negative or both the device
\* path and the socket path are unresolved.
C1_ZeroIffProbeNegOrBothUnresolved ==
    \A c \in CPUs : AtReturn(c) =>
        ((ret[c] = 0) <=> (~probe \/ (DevUnresolved(skbs[c]) /\ SkUnresolved(skbs[c]))))

\* C2: with a positive probe and a non-null device whose chained read yields
\* zero, the function goes on to read skb->sk and, if the socket is non-null,
\* returns the value of the socket's chained read.
C2_ZeroDeviceReadFallsBackToSocket ==
    \A c \in CPUs :
        (AtReturn(c) /\ probe /\ skbs[c].dev # NULL /\ DevUnresolved(skbs[c])) =>
            /\ "skb.sk" \in FieldsRead(c)
            /\ skbs[c].sk # NULL =>
                 \/ SkNsCookieIs(skbs[c], ret[c])
                 \/ (ret[c] = 0 /\ SkUnresolved(skbs[c]))

\* C3: with a negative probe the function returns 0 at the first return
\* statement and has read no field of the packet, device, socket or namespace.
C3_ProbeNegativeReturnsZeroWithoutRead ==
    \A c \in CPUs :
        /\ ~probe => reads[c] = <<>>
        /\ (AtReturn(c) /\ ~probe) => (ret[c] = 0 /\ pc[c] = "ret11")

C3_Witness ==
    \E c \in CPUs : ~probe /\ pc[c] = "ret11" /\ DevNsCookieIs(skbs[c], 10)

\* C4: with a positive probe, a packet whose device's namespace has cookie
\* k # 0 yields k, whatever its socket is (device wins over the socket).
C4_DeviceCookieReturned ==
    \A c \in CPUs : \A k \in Cookies \ {0} :
        (AtReturn(c) /\ probe /\ DevNsCookieIs(skbs[c], k)) => ret[c] = k

C4_Witness ==
    \E c \in CPUs : /\ AtReturn(c) /\ probe /\ ret[c] = 10
                    /\ DevNsCookieIs(skbs[c], 10) /\ SkNsCookieIs(skbs[c], 11)

\* C5: with a positive probe, a packet with a null device and a socket whose
\* namespace has cookie k # 0 yields k.
C5_SocketCookieReturnedWhenNoDevice ==
    \A c \in CPUs : \A k \in Cookies \ {0} :
        (AtReturn(c) /\ probe /\ skbs[c].dev = NULL /\ SkNsCookieIs(skbs[c], k))
            => ret[c] = k

C5_Witness ==
    \E c \in CPUs : /\ pc[c] = "ret20" /\ probe /\ skbs[c].dev = NULL
                    /\ SkNsCookieIs(skbs[c], 11) /\ ret[c] = 11

\* C6: a packet with a null device and a null socket yields 0 under either
\* probe outcome, and no chained namespace read is made for it.
C6_BarePacketReturnsZero ==
    \A c \in CPUs : (skbs[c].dev = NULL /\ skbs[c].sk = NULL) =>
        /\ FieldsRead(c) \cap ChainedReads = {}
        /\ AtReturn(c) => ret[c] = 0

C6_Witness ==
    \E c \in CPUs : /\ pc[c] = "ret23" /\ probe
                    /\ skbs[c].dev = NULL /\ skbs[c].sk = NULL
                    /\ reads[c] = <<"skb.dev", "skb.sk">>

\* C7: every invocation terminates in a bounded number of steps at a return
\* point: while in flight it always has a next statement to execute, whatever
\* reads fault; it executes at most five statements and four reads; and the
\* value returned is cookie-typed.
C7_InvocationTerminates ==
    \A c \in CPUs :
        /\ pc[c] \in InFlight => ENABLED Step(c)
        /\ pc[c] \in {"idle"} \cup InFlight \cup RetPoints
        /\ steps[c] <= 5 /\ Len(reads[c]) <= 4
        /\ AtReturn(c) => (steps[c] >= 1 /\ ret[c] \in Cookies)

C7_Witness ==
    \E c \in CPUs : /\ pc[c] = "ret20" /\ steps[c] = 5 /\ ret[c] = 0
                    /\ skbs[c].dev = NULL /\ skbs[c].sk \in StaleAddr

\* C8: an invocation returns what the previous invocation on the same packet
\* returned, and no step changes the probe or any packet, device, socket or
\* namespace object.
C8_Idempotent ==
    [][ /\ mem' = mem
        /\ \A c \in CPUs : (pc'[c] \in RetPoints /\ pc[c] \notin RetPoints)
                              => \A v \in prev[c] : ret'[c] = v ]_vars

C8_Witness ==
    \E c \in CPUs : AtReturn(c) /\ prev[c] = {10} /\ ret[c] = 10

\* C9: invocations interleaved on different CPUs each return the value the
\* function returns when run alone on that CPU's packet.
C9_ParallelEqualsAlone ==
    \A c \in CPUs : AtReturn(c) => ret[c] = net_get_netns_cookie(skbs[c])

C9_Witness ==
    \E c1, c2 \in CPUs :
        /\ c1 # c2
        /\ pc[c1] = "ret15" /\ ret[c1] = 10
        /\ pc[c2] = "ret20" /\ ret[c2] = 11

\* C10: skb->sk is read only after skb->dev was read and found null; with a
\* non-null device the result of the device chained read is returned as it is
\* (zero included) and skb->sk is never read.
C10_DeviceFirstNoFallback ==
    \A c \in CPUs :
        /\ "skb.sk" \in FieldsRead(c) =>
             (Len(reads[c]) >= 2 /\ reads[c][1] = "skb.dev" /\ reads[c][2] = "skb.sk"
              /\ dev[c] = NULL /\ skbs[c].dev = NULL)
        /\ (probe /\ skbs[c].dev # NULL) => "skb.sk" \notin FieldsRead(c)
        /\ (AtReturn(c) /\ probe /\ skbs[c].dev # NULL) =>
             /\ pc[c] = "ret15"
             /\ \/ DevNsCookieIs(skbs[c], ret[c])
                \/ (ret[c] = 0 /\ DevUnresolved(skbs[c]))
        /\ (AtReturn(c) /\ skbs[c].dev = NULL) =>
             \/ ret[c] = 0
             \/ SkNsCookieIs(skbs[c], ret[c])

C10_Witness ==
    \E c \in CPUs : /\ pc[c] = "ret15" /\ ret[c] = 0
                    /\ skbs[c].dev \in DevAddrs /\ SkNsCookieIs(skbs[c], 10)
====
